---- MODULE Spec2Model ----
(***************************************************************************)
(* Model of rust-u4pak's archive builder, src/src/pack.rs: pack() and      *)
(* write_path().                                                           *)
(*                                                                         *)
(* Bytes.  A file, the scratch buffer and the hasher's input are sequences *)
(* of cells.  A plain byte b is the cell [v |-> b, h |-> <<>>].  SHA-1 is   *)
(* taken to be collision free: the 20 bytes of the digest of a sequence d  *)
(* are a head cell [v |-> -1, h |-> d] followed by 19 cells                *)
(* [v |-> -2, h |-> <<>>], so two digests are equal iff their inputs are.   *)
(*                                                                         *)
(* Strings.  A Rust &str is the sequence of its code points; as_bytes() is *)
(* its UTF-8 encoding (Utf8).                                              *)
(*                                                                         *)
(* Option<T>.  None is <<>>, Some(x) is <<x>>.                             *)
(***************************************************************************)
EXTENDS Integers, Sequences, FiniteSets, TLC

\* ------------------------------------------------------------------ bounds

\* longest input list handed to pack
MaxPaths == 2

\* cut-off of the zlib block loop, which the code does not bound when the
\* effective block size is 0
MaxBlocks == 5

\* length of the file that may already exist at the output path
OldLen == 100

\* ------------------------------------------------- constants of the program

COMPR_NONE == 0

COMPR_ZLIB == 1

\* u32::MAX in the program; the model checker's integers end at 2^31 - 1
COMPR_DEFAULT == 2147483647

PAK_MAGIC == 1517228769

\* scratch chunk size, scaled down from the program's
BUFFER_SIZE == 2

\* size_of::<usize>() of a 64-bit target: the width of bytes.len().to_le_bytes()
USIZE_BYTES == 8

\* bytes of the footer: u32 + u32 + u64 + u64 + 20
FOOTER_SIZE == 44
\* the capacity of BufWriter::new
BUF_WRITER_CAPACITY == 8192

\* ------------------------------------------------------------------ bytes

Byte(b) == [v |-> b, h |-> <<>>]

Bytes(s) == [k \in 1..Len(s) |-> Byte(s[k])]

RECURSIVE LE(_, _)
\* to_le_bytes / the little-endian integer encoder, w bytes wide
LE(n, w) == IF w = 0 THEN <<>> ELSE <<Byte(n % 256)>> \o LE(n \div 256, w - 1)

\* Digest::result of a hasher that was fed `data`
Sha1Of(data) == [k \in 1..20 |-> IF k = 1 THEN [v |-> -1, h |-> data]
                                          ELSE [v |-> -2, h |-> <<>>]]

\* str::as_bytes of one char
Utf8Char(ch) ==
    IF ch < 128 THEN <<ch>>
    ELSE IF ch < 2048 THEN <<192 + (ch \div 64), 128 + (ch % 64)>>
    ELSE IF ch < 65536 THEN <<224 + (ch \div 4096), 128 + ((ch \div 64) % 64), 128 + (ch % 64)>>
    ELSE <<240 + (ch \div 262144), 128 + ((ch \div 4096) % 64),
           128 + ((ch \div 64) % 64), 128 + (ch % 64)>>

RECURSIVE Utf8(_)
Utf8(str) == IF str = <<>> THEN <<>> ELSE Utf8Char(Head(str)) \o Utf8(Tail(str))

Min(a, b) == IF a < b THEN a ELSE b

Max(a, b) == IF a < b THEN b ELSE a

\* ------------------------------------------------------------- write_path

Ok(bytes) == [ok |-> TRUE, bytes |-> bytes]

Err(msg) == [ok |-> FALSE, bytes |-> <<>>, err |-> msg]

write_path_UTF8(path) ==
    Ok(LE(Len(Utf8(path)), USIZE_BYTES) \o Bytes(Utf8(path)))

write_path_ASCII(path) ==
    LET bytes == Utf8(path) IN
    IF \E k \in 1..Len(bytes) : bytes[k] > 127
    THEN Err("IllegalEncoding")
    ELSE Ok(LE(Len(bytes), USIZE_BYTES) \o Bytes(bytes))

\* the bug of an off-by-one bound on the code point
write_path_Latin1_bound_256(path) ==
    IF \E k \in 1..Len(path) : path[k] > 256
    THEN Err("IllegalEncoding")
    ELSE LET bytes == [k \in 1..Len(path) |-> path[k] % 256] IN
         Ok(LE(Len(bytes), USIZE_BYTES) \o Bytes(bytes))

write_path_Latin1(path) ==
    IF \E k \in 1..Len(path) : path[k] > 255
    THEN Err("IllegalEncoding")
    ELSE LET bytes == [k \in 1..Len(path) |-> path[k] % 256] IN
         Ok(LE(Len(bytes), USIZE_BYTES) \o Bytes(bytes))

\* what write_path appends to an empty Vec<u8>, or the error it returns
write_path(path, encoding) ==
    CASE encoding = "UTF8"   -> write_path_UTF8(path)
      [] encoding = "ASCII"  -> write_path_ASCII(path)
      [] encoding = "Latin1" -> write_path_Latin1(path)

\* --------------------------------------------------------- pak path helpers

RECURSIVE split_components(_, _, _)
split_components(str, comp, acc) ==
    IF str = <<>> THEN (IF comp = <<>> THEN acc ELSE Append(acc, comp))
    ELSE IF Head(str) = 47
         THEN split_components(Tail(str), <<>>, IF comp = <<>> THEN acc ELSE Append(acc, comp))
         ELSE split_components(Tail(str), Append(comp, Head(str)), acc)

\* util::parse_pak_path: the non-empty components between '/' (code point 47)
parse_pak_path(str) == split_components(str, <<>>, <<>>)

RECURSIVE make_pak_path(_)
\* util::make_pak_path: the components joined by '/'
make_pak_path(comps) ==
    IF comps = <<>> THEN <<>>
    ELSE IF Len(comps) = 1 THEN comps[1]
    ELSE comps[1] \o <<47>> \o make_pak_path(Tail(comps))

\* ------------------------------------------------------ record serialization

None == <<>>

Some(x) == <<x>>

\* Record::new, with the arguments in the order pack passes them
Record_new(filename, offset, size, uncompressed_size, compression_method, timestamp, sha1, compression_blocks, encrypted, compression_block_size) ==
    [filename |-> filename, offset |-> offset, size |-> size,
     uncompressed_size |-> uncompressed_size,
     compression_method |-> compression_method, timestamp |-> timestamp,
     sha1 |-> sha1, compression_blocks |-> compression_blocks,
     encrypted |-> encrypted, compression_block_size |-> compression_block_size]

write_common(record) ==
    LE(record.offset, 8) \o LE(record.size, 8) \o LE(record.uncompressed_size, 8)
       \o LE(record.compression_method, 4)

RECURSIVE write_blocks(_)
write_blocks(blocks) ==
    IF blocks = <<>> THEN <<>>
    ELSE LE(Head(blocks).start_offset, 8) \o LE(Head(blocks).end_offset, 8)
            \o write_blocks(Tail(blocks))

\* Record::write_v1
write_v1(record) ==
    write_common(record)
       \o LE(IF record.timestamp = None THEN 0 ELSE record.timestamp[1], 8)
       \o record.sha1

\* Record::write_v2
write_v2(record) == write_common(record) \o record.sha1

\* Record::write_v3
write_v3(record) ==
    write_common(record) \o record.sha1
       \o (IF record.compression_method = COMPR_NONE THEN <<>>
           ELSE LET blocks == IF record.compression_blocks = None THEN <<>>
                              ELSE record.compression_blocks[1] IN
                LE(Len(blocks), 4) \o write_blocks(blocks)
                   \o LE(IF record.encrypted THEN 1 ELSE 0, 1)
                   \o LE(record.compression_block_size, 4))

write_record(version, record) ==
    CASE version = 1 -> write_v1(record)
      [] version = 2 -> write_v2(record)
      [] version = 3 -> write_v3(record)

\* encode!(writer, PAK_MAGIC, version, index_offset, index_size, index_sha1)
encode_footer(version, index_offset, index_size, index_sha1) ==
    LE(PAK_MAGIC, 4) \o LE(version, 4) \o LE(index_offset, 8) \o LE(index_size, 8)
       \o index_sha1

\* Pak::new
Pak_new(version, index_offset, index_size, index_sha1, mount_point, records) ==
    [version |-> version, index_offset |-> index_offset, index_size |-> index_size,
     index_sha1 |-> index_sha1, mount_point |-> mount_point, records |-> records]

\* ------------------------------------------------------------------ hasher

\* Sha1Hasher::new
hasher_new == [data |-> <<>>, computed |-> FALSE]

\* the bug of not resetting the hasher between entries
hasher_reset_skipped(h) == h

\* Digest::reset
hasher_reset(h) == hasher_new

\* Digest::input
hasher_input(h, bytes) == [h EXCEPT !.data = h.data \o bytes]

\* Digest::result: the digest of what was fed so far; the hasher is not reset
hasher_result(h) == [h EXCEPT !.computed = TRUE]

\* --------------------------------------------------------------- the host

\* the source files on the host: path |-> contents and the outcome of
\* metadata.created(); a path outside the domain does not exist
HostFile(content, created, secs) == [content |-> content, created |-> created, secs |-> secs]

HostFiles ==
    (<<97>>  :> HostFile(<<11, 12, 13, 14, 15>>, "ok", 7))          \* a
 @@ (<<98>>  :> HostFile(<<21, 22, 23, 24>>, "ok", 258))            \* b
 @@ (<<101>> :> HostFile(<<>>, "ok", 3))                            \* e
 @@ (<<233>> :> HostFile(<<31, 32, 33>>, "ok", 4))                  \* e acute
 @@ (<<256>> :> HostFile(<<41, 42, 43>>, "ok", 5))                  \* A macron
 @@ (<<116>> :> HostFile(<<51, 52>>, "unsupported", 0))             \* t
 @@ (<<117>> :> HostFile(<<61>>, "before_epoch", 0))                \* u

\* PackPath { compression_method, compression_block_size, filename }
PackPath(compression_method, compression_block_size, filename) ==
    [compression_method |-> compression_method,
     compression_block_size |-> compression_block_size, filename |-> filename]

PackPaths ==
    { PackPath(COMPR_ZLIB, 2, <<97>>),
      PackPath(COMPR_DEFAULT, 0, <<47, 98>>),
      PackPath(COMPR_DEFAULT, 0, <<101>>),
      PackPath(COMPR_NONE, 0, <<233>>),
      PackPath(COMPR_DEFAULT, 0, <<256>>),
      PackPath(COMPR_DEFAULT, 0, <<116>>),
      PackPath(COMPR_DEFAULT, 0, <<117>>),
      PackPath(COMPR_DEFAULT, 0, <<109>>),
      PackPath(16, 0, <<97>>) }

PathLists == UNION { [1..n -> PackPaths] : n \in 0..MaxPaths }

\* PackOptions { version, mount_point, compression_method, compression_block_size, encoding }
PackOptionsSet ==
    [version : {1, 2, 3, 4},
     mount_point : {None, Some(<<233>>)},
     compression_method : {COMPR_NONE, COMPR_ZLIB, 16},
     compression_block_size : {3},
     encoding : {"UTF8", "ASCII", "Latin1"}]

\* a valid package of OldLen bytes: payload bytes no record refers to, an
\* index that is the empty mount point (len: u32) and no record, the footer
OldPackage ==
    [k \in 1..(OldLen - 4 - FOOTER_SIZE) |-> Byte(238)] \o LE(0, 4)
       \o encode_footer(3, OldLen - 4 - FOOTER_SIZE, 4, Sha1Of(LE(0, 4)))

\* what may be at the output path before the call: nothing, or a package
OldFiles == {None, Some(OldPackage)}

\* write_all at position pos of a file opened without truncation
WriteAt(file, pos, bytes) ==
    [k \in 1..Max(Len(file), pos + Len(bytes)) |->
        IF k > pos /\ k <= pos + Len(bytes) THEN bytes[k - pos] ELSE file[k]]

\* ------------------------------------------------------------------- state

VARIABLES
    options,          \* the PackOptions of the call
    paths,            \* the &[PackPath] of the call
    out_file,         \* the file at the output path: None, or Some(its bytes)
    opened,           \* the call has created or opened the output file
    pc,               \* position of the call inside pack
    result,           \* what pack returned, once pc = "done"
    writer_pos,       \* the bytes handed to `writer` so far
    writer_buf,       \* the bytes `writer` holds and the file does not have yet
    hasher,           \* the one Sha1Hasher of the call
    buffer_len,       \* buffer.len() of the scratch buffer
    records,          \* the records pushed so far
    reads,            \* per record, the lengths of the read_exact calls on its source
    data_size,
    i,                \* index in paths (entry loop), then in records (index loop)
    entry,            \* locals of the loop iteration in progress
    index_offset,
    index_size,
    created_queried,  \* host files whose metadata.created() was called
    wp,               \* one call of write_path on its own: arguments and outcome
    written,          \* per record, the payload bytes written in its iteration
    cli               \* one run of the command line: arguments and outcome

vars == <<options, paths, out_file, opened, pc, result, writer_pos, writer_buf, hasher,
          buffer_len, records, reads, data_size, i, entry, index_offset,
          index_size, created_queried, wp, written, cli>>

Running == [status |-> "running", err |-> "", pak |-> None]

Return_Ok(pak) == [status |-> "Ok", err |-> "", pak |-> Some(pak)]

Return_Err(err) == [status |-> "Err", err |-> err, pak |-> None]

Panicked == [status |-> "panic", err |-> "assertion failed: !st.computed", pak |-> None]

NoEntry ==
    [offset |-> 0, compression_method |-> 0, filename |-> <<>>, content |-> <<>>,
     size |-> 0, uncompressed_size |-> 0, timestamp |-> None,
     compression_block_size |-> 0, blocks |-> <<>>, remaining |-> 0,
     start_offset |-> 0, in_pos |-> 0, reads |-> <<>>, written |-> 0]

\* no run of the command line
NoRun ==
    [cmd |-> "", check_integrity |-> FALSE, package |-> <<>>, paths |-> <<>>,
     io_fails |-> FALSE, op_ok |-> TRUE, encoding_ok |-> TRUE, version |-> <<>>,
     size |-> <<>>, method |-> <<>>, level |-> <<>>, pc |-> "idle",
     checked |-> <<>>, count |-> <<>>, stdout |-> <<>>, exit_code |-> 0, packed |-> <<>>]

\* no separate call of write_path
NoCall == [path |-> <<>>, encoding |-> "UTF8", called |-> FALSE, ret |-> Ok(<<>>)]

Init ==
    /\ out_file \in OldFiles
    /\ options \in PackOptionsSet
    /\ paths \in PathLists
    /\ opened = FALSE
    /\ pc = "validate"
    /\ result = Running
    /\ writer_pos = 0
    /\ writer_buf = <<>>
    /\ hasher = hasher_new
    /\ buffer_len = 0
    /\ records = <<>>
    /\ reads = <<>>
    /\ data_size = 0
    /\ i = 1
    /\ entry = NoEntry
    /\ index_offset = 0
    /\ index_size = 0
    /\ created_queried = {}
    /\ wp = NoCall
    /\ written = <<>>
    /\ cli = NoRun

\* pack returns early with an error
Fail(err) ==
    /\ pc' = "done"
    /\ result' = Return_Err(err)

\* BufWriter::flush_buf: the bytes held go to the file, behind those it has
flush_buf(w) ==
    [file |-> WriteAt(w.file, w.pos - Len(w.buf), w.buf), buf |-> <<>>, pos |-> w.pos]

\* BufWriter::write_all: the bytes are kept in the buffer; the buffer is
\* written out first when they do not fit, and bytes that fill a whole buffer
\* go to the file directly
write_all(w, bytes) ==
    LET room == IF Len(w.buf) + Len(bytes) > BUF_WRITER_CAPACITY THEN flush_buf(w) ELSE w IN
    IF Len(bytes) >= BUF_WRITER_CAPACITY
    THEN [file |-> WriteAt(room.file, room.pos, bytes), buf |-> room.buf,
          pos |-> room.pos + Len(bytes)]
    ELSE [file |-> room.file, buf |-> room.buf \o bytes, pos |-> room.pos + Len(bytes)]

\* `writer` as it is: the file it writes to, what it holds, how far it is
Writer == [file |-> out_file[1], buf |-> writer_buf, pos |-> writer_pos]

SetWriter(w) ==
    /\ out_file' = Some(w.file)
    /\ writer_buf' = w.buf
    /\ writer_pos' = w.pos

\* writer.write_all(bytes)
Write(bytes) == SetWriter(write_all(Writer, bytes))

\* `writer` is dropped at a return or while a panic unwinds: BufWriter's Drop
\* writes out what it holds
DropWriter == SetWriter(flush_buf(Writer))

\* writer.write_all(bytes), then the drop of `writer`
WriteAndDrop(bytes) == SetWriter(flush_buf(write_all(Writer, bytes)))

\* the checks of options.version and options.compression_method
ValidateOptions(opts) ==
    IF opts.version \notin {1, 2, 3} THEN "UnsupportedVersion"
    ELSE IF opts.compression_method \notin {COMPR_NONE, COMPR_ZLIB}
         THEN "UnsupportedCompressionMethod"
         ELSE "ok"

Validate ==
    /\ pc = "validate"
    /\ IF ValidateOptions(options) = "ok"
       THEN pc' = "open" /\ UNCHANGED result
       ELSE Fail(ValidateOptions(options))
    /\ UNCHANGED <<options, paths, out_file, opened, writer_pos, hasher, buffer_len,
                   records, reads, data_size, i, entry, index_offset, index_size,
                   created_queried, wp, written, cli, writer_buf>>

\* OpenOptions::new().create(true).write(true).open(pak_path): an existing
\* file keeps its bytes
open_create_write(file) == IF file = None THEN Some(<<>>) ELSE file

OpenOutput ==
    /\ pc = "open"
    /\ out_file' = open_create_write(out_file)
    /\ opened' = TRUE
    /\ writer_pos' = 0
    /\ writer_buf' = <<>>
    /\ hasher' = hasher_new
    /\ buffer_len' = BUFFER_SIZE
    /\ records' = <<>>
    /\ data_size' = 0
    /\ pc' = "entry"
    /\ UNCHANGED <<options, paths, result, reads, i, entry, index_offset, index_size,
                   created_queried, wp, written, cli>>

\* the open of the output file fails
OpenOutputFails ==
    /\ pc = "open"
    /\ Fail("Io")
    /\ UNCHANGED <<options, paths, out_file, opened, writer_pos, hasher, buffer_len,
                   records, reads, data_size, i, entry, index_offset, index_size,
                   created_queried, wp, written, cli, writer_buf>>

\* the bug of ignoring the per-file override
effective_method_build_wide(path, opts) == opts.compression_method

\* the method of one entry: the per-file override, or the build-wide method
effective_method(path, opts) ==
    IF path.compression_method = COMPR_DEFAULT
    THEN opts.compression_method
    ELSE path.compression_method

\* the bug of not clamping the block size
effective_block_size_unclamped(path, opts, uncompressed_size) ==
    IF path.compression_block_size = 0
    THEN opts.compression_block_size
    ELSE path.compression_block_size

\* the block size of one zlib entry, clamped to the length of its source
effective_block_size(path, opts, uncompressed_size) ==
    LET requested == IF path.compression_block_size = 0
                     THEN opts.compression_block_size
                     ELSE path.compression_block_size
    IN  IF requested > uncompressed_size THEN uncompressed_size ELSE requested

\* the bug of taking the timestamp for version 2 as well
timestamp_query_v1_v2(version, file_path) ==
    IF version <= 2
    THEN CASE HostFiles[file_path].created = "unsupported"  -> [ok |-> FALSE, err |-> "Io", value |-> None]
           [] HostFiles[file_path].created = "before_epoch" -> [ok |-> FALSE, err |-> "SystemTime", value |-> None]
           [] OTHER -> [ok |-> TRUE, err |-> "", value |-> Some(HostFiles[file_path].secs)]
    ELSE [ok |-> TRUE, err |-> "", value |-> None]

\* metadata.created() and duration_since(UNIX_EPOCH), asked for version 1 only
timestamp_query(version, file_path) ==
    IF version = 1
    THEN CASE HostFiles[file_path].created = "unsupported"  -> [ok |-> FALSE, err |-> "Io", value |-> None]
           [] HostFiles[file_path].created = "before_epoch" -> [ok |-> FALSE, err |-> "SystemTime", value |-> None]
           [] OTHER -> [ok |-> TRUE, err |-> "", value |-> Some(HostFiles[file_path].secs)]
    ELSE [ok |-> TRUE, err |-> "", value |-> None]

\* head of one iteration of `for path in paths`: up to the match on the method
BeginEntry ==
    /\ pc = "entry"
    /\ i <= Len(paths)
    /\ LET path == paths[i]
           compression_method == effective_method(path, options)
           filename == parse_pak_path(path.filename)
           file_path == make_pak_path(filename)
       IN
       IF file_path \notin DOMAIN HostFiles
       THEN Fail("Io") /\ DropWriter
            /\ UNCHANGED <<hasher, buffer_len, entry, created_queried>>
       ELSE
       LET uncompressed_size == Len(HostFiles[file_path].content)
           timestamp == timestamp_query(options.version, file_path)
           block_size == effective_block_size(path, options, uncompressed_size)
           common == [NoEntry EXCEPT !.offset = data_size,
                                     !.compression_method = compression_method,
                                     !.filename = filename,
                                     !.content = HostFiles[file_path].content,
                                     !.uncompressed_size = uncompressed_size,
                                     !.timestamp = timestamp.value,
                                     !.remaining = uncompressed_size]
       IN
       /\ created_queried' = IF options.version = 1
                             THEN created_queried \cup {file_path}
                             ELSE created_queried
       /\ IF ~timestamp.ok
          THEN Fail(timestamp.err) /\ DropWriter /\ UNCHANGED <<hasher, buffer_len, entry>>
          ELSE
          /\ hasher' = hasher_reset(hasher)
          /\ CASE compression_method = COMPR_NONE ->
                    /\ entry' = [common EXCEPT !.size = uncompressed_size]
                    /\ pc' = "copy"
                    /\ UNCHANGED <<buffer_len, result, out_file, writer_buf, writer_pos>>
               [] compression_method = COMPR_ZLIB ->
                    /\ entry' = [common EXCEPT !.compression_block_size = block_size]
                    /\ buffer_len' = Max(buffer_len, block_size)
                    /\ pc' = "zlib"
                    /\ UNCHANGED <<result, out_file, writer_buf, writer_pos>>
               [] OTHER ->
                    /\ Fail("UnsupportedCompressionMethod")
                    /\ DropWriter
                    /\ UNCHANGED <<buffer_len, entry>>
    /\ UNCHANGED <<options, paths, opened, records, reads,
                   data_size, i, index_offset, index_size, wp, written, cli>>

\* a read that leaves the file position where it was
read_exact_from_start(e, n) == SubSeq(e.content, 1, n)

\* in_file.read_exact of n bytes
read_exact(e, n) == SubSeq(e.content, e.in_pos + 1, e.in_pos + n)

\* the length of `&mut buffer[..BUFFER_SIZE]`, whatever an earlier zlib entry
\* made the length of the scratch buffer
copy_chunk_len(buf_len) == BUFFER_SIZE

\* one iteration of `while remaining >= BUFFER_SIZE` of the COMPR_NONE branch
CopyChunk ==
    /\ pc = "copy"
    /\ entry.remaining >= BUFFER_SIZE
    /\ LET chunk == Bytes(read_exact(entry, copy_chunk_len(buffer_len))) IN
       /\ Write(chunk)
       /\ hasher' = hasher_input(hasher, chunk)
       /\ entry' = [entry EXCEPT !.remaining = @ - BUFFER_SIZE,
                                 !.in_pos = @ + Len(chunk),
                                 !.reads = Append(@, Len(chunk)),
                                 !.written = @ + Len(chunk)]
    /\ UNCHANGED <<options, paths, opened, pc, result, buffer_len, records, reads,
                   data_size, i, index_offset, index_size, created_queried, wp, written, cli>>

\* the bug of not advancing data_size by the size of the record
PushRecord_data_size_kept(e, h, compression_blocks) ==
    /\ hasher' = hasher_result(h)
    /\ records' = Append(records,
          Record_new(make_pak_path(e.filename), e.offset, e.size, e.uncompressed_size,
                     e.compression_method, e.timestamp, Sha1Of(h.data),
                     compression_blocks, FALSE, e.compression_block_size))
    /\ reads' = Append(reads, e.reads)
    /\ written' = Append(written, e.written)
    /\ data_size' = data_size
    /\ i' = i + 1
    /\ entry' = NoEntry
    /\ pc' = "entry"

\* hasher.result, records.push(Record::new(..)) and data_size += size
PushRecord(e, h, compression_blocks) ==
    /\ hasher' = hasher_result(h)
    /\ records' = Append(records,
          Record_new(make_pak_path(e.filename), e.offset, e.size, e.uncompressed_size,
                     e.compression_method, e.timestamp, Sha1Of(h.data),
                     compression_blocks, FALSE, e.compression_block_size))
    /\ reads' = Append(reads, e.reads)
    /\ written' = Append(written, e.written)
    /\ data_size' = data_size + e.size
    /\ i' = i + 1
    /\ entry' = NoEntry
    /\ pc' = "entry"

\* the rest of a COMPR_NONE iteration: the last, short chunk and the record
CopyTail ==
    /\ pc = "copy"
    /\ entry.remaining < BUFFER_SIZE
    /\ LET chunk == Bytes(read_exact(entry, entry.remaining))
           e == [entry EXCEPT !.reads = IF entry.remaining > 0
                                        THEN Append(@, entry.remaining) ELSE @,
                              !.written = @ + Len(chunk)]
       IN
       /\ Write(chunk)
       /\ PushRecord(e, hasher_input(hasher, chunk), None)
    /\ UNCHANGED <<options, paths, opened, result, buffer_len, index_offset,
                   index_size, created_queried, wp, cli>>

CompressionBlock(start_offset, end_offset) ==
    [start_offset |-> start_offset, end_offset |-> end_offset]

\* end offsets that advance by the chunk read, with nothing written for it
block_end_offset_advancing(start_offset, chunk_len) == start_offset + chunk_len

\* `let end_offset = start_offset; // TODO`
block_end_offset(start_offset, chunk_len) == start_offset

\* one iteration of `while remaining >= compression_block_size` of the
\* COMPR_ZLIB branch: the chunk is read, nothing is written or hashed
ZlibBlock ==
    /\ pc = "zlib"
    /\ entry.remaining >= entry.compression_block_size
    /\ Len(entry.blocks) < MaxBlocks
    /\ LET end_offset == block_end_offset(entry.start_offset, entry.compression_block_size) IN
       entry' = [entry EXCEPT !.remaining = @ - entry.compression_block_size,
                              !.in_pos = @ + entry.compression_block_size,
                              !.reads = Append(@, entry.compression_block_size),
                              !.blocks = Append(@, CompressionBlock(entry.start_offset, end_offset)),
                              !.start_offset = end_offset]
    /\ UNCHANGED <<options, paths, out_file, opened, pc, result, writer_pos, hasher,
                   buffer_len, records, reads, data_size, i, index_offset, index_size,
                   created_queried, wp, written, cli, writer_buf>>

\* the rest of a COMPR_ZLIB iteration: the last, short block and the record
ZlibTail ==
    /\ pc = "zlib"
    /\ entry.remaining < entry.compression_block_size
    /\ LET end_offset == block_end_offset(entry.start_offset, entry.remaining)
           e == IF entry.remaining > 0
                THEN [entry EXCEPT !.reads = Append(@, entry.remaining),
                                   !.blocks = Append(@, CompressionBlock(entry.start_offset, end_offset))]
                ELSE entry
       IN PushRecord(e, hasher, Some(e.blocks))
    /\ UNCHANGED <<options, paths, out_file, opened, result, writer_pos, buffer_len,
                   index_offset, index_size, created_queried, wp, cli, writer_buf>>

\* after the loop: index_offset, and the mount point string, which is
\* written and counted but not fed to the hasher
WriteMountPoint ==
    /\ pc = "entry"
    /\ i > Len(paths)
    /\ index_offset' = data_size
    /\ LET mount_pount == IF options.mount_point = None THEN <<>> ELSE options.mount_point[1]
           buffer == write_path(mount_pount, options.encoding)
       IN
       IF ~buffer.ok
       THEN Fail(buffer.err) /\ DropWriter /\ UNCHANGED <<index_size, buffer_len, i>>
       ELSE /\ Write(buffer.bytes)
            /\ index_size' = Len(buffer.bytes)
            /\ buffer_len' = Len(buffer.bytes)
            /\ i' = 1
            /\ pc' = "index"
            /\ UNCHANGED result
    /\ UNCHANGED <<options, paths, opened, hasher, records, reads, data_size, entry,
                   created_queried, wp, written, cli>>

\* the bytes of one index entry: write_path(filename) then record.write_vN
index_entry(version, record, encoding) ==
    LET name == write_path(record.filename, encoding) IN
    IF name.ok THEN Ok(name.bytes \o write_record(version, record)) ELSE name

\* one iteration of `for record in &records`.  hasher.input on a hasher whose
\* result was taken and that was not reset is outside the Digest contract:
\* this disjunct is the outcome where the input is accepted
WriteIndexRecord ==
    /\ pc = "index"
    /\ i <= Len(records)
    /\ LET buffer == index_entry(options.version, records[i], options.encoding) IN
       IF ~buffer.ok
       THEN Fail(buffer.err) /\ DropWriter
            /\ UNCHANGED <<hasher, index_size, buffer_len, i>>
       ELSE /\ Write(buffer.bytes)
            /\ hasher' = hasher_input(hasher, buffer.bytes)
            /\ index_size' = index_size + Len(buffer.bytes)
            /\ buffer_len' = Len(buffer.bytes)
            /\ i' = i + 1
            /\ UNCHANGED <<pc, result>>
    /\ UNCHANGED <<options, paths, opened, records, reads, data_size, entry,
                   index_offset, created_queried, wp, written, cli>>

\* the other outcome: hasher.input asserts !computed and the call panics,
\* after the entry was written; the unwinding drops `writer`
WriteIndexRecordPanics ==
    /\ pc = "index"
    /\ i <= Len(records)
    /\ hasher.computed
    /\ LET buffer == index_entry(options.version, records[i], options.encoding) IN
       /\ buffer.ok
       /\ WriteAndDrop(buffer.bytes)
       /\ buffer_len' = Len(buffer.bytes)
    /\ pc' = "done"
    /\ result' = Panicked
    /\ UNCHANGED <<options, paths, opened, hasher, records, reads, data_size, i, entry,
                   index_offset, index_size, created_queried, wp, written, cli>>

\* hasher.result, the footer, and the returned Pak; `writer` is dropped at
\* the return
WriteFooter ==
    /\ pc = "index"
    /\ i > Len(records)
    /\ LET index_sha1 == Sha1Of(hasher.data) IN
       /\ WriteAndDrop(encode_footer(options.version, index_offset, index_size, index_sha1))
       /\ result' = Return_Ok(Pak_new(options.version, index_offset, index_size,
                                      index_sha1, options.mount_point, records))
    /\ hasher' = hasher_result(hasher)
    /\ pc' = "done"
    /\ UNCHANGED <<options, paths, opened, buffer_len, records, reads, data_size, i,
                   entry, index_offset, index_size, created_queried, wp, written, cli>>

Next ==
    \/ Validate
    \/ OpenOutput
    \/ OpenOutputFails
    \/ BeginEntry
    \/ CopyChunk
    \/ CopyTail
    \/ ZlibBlock
    \/ ZlibTail
    \/ WriteMountPoint
    \/ WriteIndexRecord
    \/ WriteIndexRecordPanics
    \/ WriteFooter

Spec == Init /\ [][Next]_vars

\* ------------------------------------------- write_path called on its own

\* longest string handed to write_path
MaxStrLen == 2

\* code points on both sides of what the encodings tell apart
Chars == {97, 127, 128, 255, 256, 2047, 2048, 65536}

Strings == UNION { [1..n -> Chars] : n \in 0..MaxStrLen }

InitWritePath ==
    /\ options = [version |-> 3, mount_point |-> None, compression_method |-> COMPR_NONE,
                  compression_block_size |-> 3, encoding |-> "UTF8"]
    /\ paths = <<>>
    /\ out_file = None
    /\ opened = FALSE
    /\ pc = "write_path"
    /\ result = Running
    /\ writer_pos = 0
    /\ writer_buf = <<>>
    /\ hasher = hasher_new
    /\ buffer_len = 0
    /\ records = <<>>
    /\ reads = <<>>
    /\ data_size = 0
    /\ i = 1
    /\ entry = NoEntry
    /\ index_offset = 0
    /\ index_size = 0
    /\ created_queried = {}
    /\ written = <<>>
    /\ cli = NoRun
    /\ wp \in [path : Strings, encoding : {"UTF8", "ASCII", "Latin1"},
               called : {FALSE}, ret : {Ok(<<>>)}]

\* write_path(&mut Vec::new(), path, encoding)
CallWritePath ==
    /\ pc = "write_path"
    /\ ~wp.called
    /\ wp' = [wp EXCEPT !.called = TRUE, !.ret = write_path(wp.path, wp.encoding)]
    /\ UNCHANGED <<options, paths, out_file, opened, pc, result, writer_pos, hasher,
                   buffer_len, records, reads, data_size, i, entry, index_offset,
                   index_size, created_queried, written, cli, writer_buf>>

SpecWritePath == InitWritePath /\ [][CallWritePath]_vars

\* ------------------------------------------------------------ command line
\* One run of the program: the subcommand branch of run() and the exit status
\* main() turns its result into. Arguments are strings of code points.

\* the most PATH arguments of a run
MaxArgs == 2

COMPR_LEVEL_FAST == 1
COMPR_LEVEL_DEFAULT == 6
COMPR_LEVEL_BEST == 9

\* u8::to_ascii_lowercase
to_ascii_lowercase(c) == IF c >= 65 /\ c <= 90 THEN c + 32 ELSE c

\* str::eq_ignore_ascii_case
eq_ignore_ascii_case(a, b) ==
    /\ Len(a) = Len(b)
    /\ \A k \in 1..Len(a) : to_ascii_lowercase(a[k]) = to_ascii_lowercase(b[k])

\* the value of a string of decimal digits (short enough not to overflow)
RECURSIVE digits_value(_)
digits_value(s) ==
    IF s = <<>> THEN 0
    ELSE digits_value(SubSeq(s, 1, Len(s) - 1)) * 10 + (s[Len(s)] - 48)

\* value.parse::<u32>(): an optional '+', then one or more decimal digits;
\* None is the Err
parse_u32(value) ==
    LET digits == IF value # <<>> /\ value[1] = 43 THEN Tail(value) ELSE value IN
    IF digits # <<>> /\ \A k \in 1..Len(digits) : digits[k] >= 48 /\ digits[k] <= 57
    THEN Some(digits_value(digits))
    ELSE None

\* parse_compression_method; None is the Err
parse_compression_method(value) ==
    IF eq_ignore_ascii_case(value, <<110, 111, 110, 101>>) THEN Some(COMPR_NONE)
    ELSE IF eq_ignore_ascii_case(value, <<122, 108, 105, 98>>) THEN Some(COMPR_ZLIB)
    ELSE None

\* the level check, were it to accept one level too many
level_in_range_upto_10(level) == level > 0 /\ level < 11

\* the guard `level > 0 && level < 10`
level_in_range(level) == level > 0 /\ level < 10

\* parse_compression_level; None is the Err
parse_compression_level(value) ==
    IF eq_ignore_ascii_case(value, <<98, 101, 115, 116>>) THEN Some(COMPR_LEVEL_BEST)
    ELSE IF eq_ignore_ascii_case(value, <<102, 97, 115, 116>>) THEN Some(COMPR_LEVEL_FAST)
    ELSE IF eq_ignore_ascii_case(value, <<100, 101, 102, 97, 117, 108, 116>>)
    THEN Some(COMPR_LEVEL_DEFAULT)
    ELSE LET level == parse_u32(value) IN
         IF level # None /\ level_in_range(level[1]) THEN level ELSE None

\* A usize is four 16-bit limbs, least significant first, so that values
\* above u32::MAX can be told from their truncation.
\* `compression_block_size > u32::MAX as usize`
exceeds_u32(n) == n[3] # 0 \/ n[4] # 0

\* `compression_block_size as u32`
as_u32(n) == <<n[1], n[2]>>

\* NonZeroU32::new
NonZeroU32_new(n) == IF n = <<0, 0>> THEN None ELSE Some(n)

\* get_filter, were an empty PATH list to make an empty selection
get_filter_always(path_args) == Some({path_args[k].text : k \in 1..Len(path_args)})

\* get_filter: the PATH arguments as a filter, or no filter when there are none
get_filter(path_args) ==
    IF Len(path_args) = 0 THEN None ELSE Some({path_args[k].text : k \in 1..Len(path_args)})

\* Filter::contains: the filename is one of the paths or lies below one
Filter_contains(filter, filename) ==
    \E path \in filter :
        \/ filename = path
        \/ /\ Len(filename) > Len(path)
           /\ SubSeq(filename, 1, Len(path) + 1) = Append(path, 47)

\* `pak.records().iter().filter(|record| filter.contains(record.filename()))`
RECURSIVE filter_records(_, _)
filter_records(recs, filter) ==
    IF recs = <<>> THEN <<>>
    ELSE IF Filter_contains(filter, Head(recs).filename)
         THEN <<Head(recs)>> \o filter_records(Tail(recs), filter)
         ELSE filter_records(Tail(recs), filter)

\* Pak::check_integrity_of with no I/O error: the mismatches among the records
\* in order, stopping at the first one when abort_on_error
RECURSIVE check_integrity_of(_, _)
check_integrity_of(recs, abort_on_error) ==
    IF recs = <<>> THEN 0
    ELSE IF Head(recs).intact THEN check_integrity_of(Tail(recs), abort_on_error)
    ELSE IF abort_on_error THEN 1
    ELSE 1 + check_integrity_of(Tail(recs), abort_on_error)

\* a record of an opened package: its filename and whether its payload still
\* has the digest the index stores
PakRecord(filename, intact) == [filename |-> filename, intact |-> intact]

\* the packages a run may open: up to two records named "a" and "d/b"; None
\* when the package cannot be opened or parsed
Packages ==
    LET names == {<<97>>, <<100, 47, 98>>}
        recs == {PakRecord(n, ok) : n \in names, ok \in BOOLEAN}
    IN {None, Some(<<>>)}
       \cup {Some(<<r>>) : r \in recs}
       \cup UNION {{Some(<<r, q>>) : q \in {x \in recs : x.filename # r.filename}} :
                    r \in recs}

\* a PATH argument; conv is what the pack subcommand makes of it: None when its
\* conversion or its list file fails, else the inputs it yields
PathArg(text, conv) == [text |-> text, conv |-> conv]

\* the PATH arguments of list, check and unpack: "a", "d", "x"
FilterArgs == {PathArg(t, None) : t \in {<<97>>, <<100>>, <<120>>}}

\* the PATH arguments of pack: "a"; "m", a file that does not exist; "@l", a
\* list of "b" and "t"; "@e", an empty list; "@m", a list file that cannot be
\* read
PackArgs ==
    {PathArg(<<97>>, Some(<<PackPath(COMPR_DEFAULT, 0, <<97>>)>>)),
     PathArg(<<109>>, Some(<<PackPath(COMPR_DEFAULT, 0, <<109>>)>>)),
     PathArg(<<64, 108>>, Some(<<PackPath(COMPR_DEFAULT, 0, <<98>>),
                                 PackPath(COMPR_DEFAULT, 0, <<116>>)>>)),
     PathArg(<<64, 101>>, Some(<<>>)),
     PathArg(<<64, 109>>, None)}

ArgLists(args) == UNION { [1..n -> args] : n \in 0..MaxArgs }

\* what parse_size returns for --compression-block-size: None for an Err, else
\* 0, 1, 65536, u32::MAX, u32::MAX + 1, u32::MAX + 2
SizeArgs ==
    {None, Some(<<0, 0, 0, 0>>), Some(<<1, 0, 0, 0>>), Some(<<0, 1, 0, 0>>),
     Some(<<65535, 65535, 0, 0>>), Some(<<0, 0, 1, 0>>), Some(<<1, 0, 1, 0>>)}

\* --compression-method: "none", "NONE", "Zlib", "zlib", "lzma", "", "non"
MethodArgs ==
    {<<110, 111, 110, 101>>, <<78, 79, 78, 69>>, <<90, 108, 105, 98>>,
     <<122, 108, 105, 98>>, <<108, 122, 109, 97>>, <<>>, <<110, 111, 110>>}

\* --compression-level: "best", "FAST", "Default", "0", "1", "9", "10", "+5",
\* "05", "-1", "", "x"
LevelArgs ==
    {<<98, 101, 115, 116>>, <<70, 65, 83, 84>>, <<68, 101, 102, 97, 117, 108, 116>>,
     <<48>>, <<49>>, <<57>>, <<49, 48>>, <<43, 53>>, <<48, 53>>, <<45, 49>>, <<>>, <<120>>}

\* --version: "3", "x"
VersionArgs == {<<51>>, <<120>>}

CliRun(cmd, check_integrity, package, path_args, io_fails, op_ok) ==
    [NoRun EXCEPT !.cmd = cmd, !.check_integrity = check_integrity, !.package = package,
                  !.paths = path_args, !.io_fails = io_fails, !.op_ok = op_ok,
                  !.pc = "start"]

PackRun(encoding_ok, version, size, method, level, path_args) ==
    [NoRun EXCEPT !.cmd = "pack", !.encoding_ok = encoding_ok, !.version = version,
                  !.size = size, !.method = method, !.level = level,
                  !.paths = path_args, !.pc = "start"]

InitCli ==
    /\ options = [version |-> 3, mount_point |-> None, compression_method |-> COMPR_NONE,
                  compression_block_size |-> 3, encoding |-> "UTF8"]
    /\ paths = <<>>
    /\ out_file = None
    /\ opened = FALSE
    /\ pc = "cli"
    /\ result = Running
    /\ writer_pos = 0
    /\ writer_buf = <<>>
    /\ hasher = hasher_new
    /\ buffer_len = 0
    /\ records = <<>>
    /\ reads = <<>>
    /\ data_size = 0
    /\ i = 1
    /\ entry = NoEntry
    /\ index_offset = 0
    /\ index_size = 0
    /\ created_queried = {}
    /\ written = <<>>
    /\ wp = NoCall
    /\ \/ \E c \in {"list", "unpack"}, f \in BOOLEAN, p \in Packages,
             a \in ArgLists(FilterArgs), io \in BOOLEAN, ok \in BOOLEAN :
             cli = CliRun(c, f, p, a, io, ok)
       \/ \E p \in Packages, a \in ArgLists(FilterArgs), io \in BOOLEAN :
             cli = CliRun("check", FALSE, p, a, io, TRUE)
       \/ \E e \in BOOLEAN, v \in VersionArgs, sz \in SizeArgs, m \in MethodArgs,
             l \in LevelArgs, a \in ArgLists(PackArgs) :
             cli = PackRun(e, v, sz, m, l, a)

\* main(): an Err from run() is printed and the process exits with status 1
exit_err(c) == [c EXCEPT !.pc = "exit", !.exit_code = 1]

\* main(): run() returned Ok(())
exit_ok(c) == [c EXCEPT !.pc = "exit", !.exit_code = 0]

\* the records handed to the integrity check: those the filter contains, or
\* all of them through Pak::check_integrity when there is no filter
selected_records(c) ==
    LET filter == get_filter(c.paths) IN
    IF filter # None THEN filter_records(c.package[1], filter[1]) ELSE c.package[1]

\* an I/O error needs a record to read
io_error(c, recs) == c.io_fails /\ recs # <<>>

\* the `if check_integrity { .. }` block of list and unpack, whose `?` passes
\* an I/O error on and whose count is dropped; then the operation itself
check_then(c) ==
    IF c.package = None THEN exit_err(c)
    ELSE IF c.check_integrity
    THEN LET recs == selected_records(c) IN
         IF io_error(c, recs) THEN exit_err([c EXCEPT !.checked = Some(recs)])
         ELSE LET done == [c EXCEPT !.checked = Some(recs),
                                    !.count = Some(check_integrity_of(recs, TRUE))] IN
              IF c.op_ok THEN exit_ok(done) ELSE exit_err(done)
    ELSE IF c.op_ok THEN exit_ok(c) ELSE exit_err(c)

\* ("list", Some(args))
RunList ==
    /\ pc = "cli"
    /\ cli.pc = "start"
    /\ cli.cmd = "list"
    /\ cli' = check_then(cli)
    /\ UNCHANGED <<options, paths, out_file, opened, pc, result, writer_pos, hasher,
                   buffer_len, records, reads, data_size, i, entry, index_offset,
                   index_size, created_queried, wp, written, writer_buf>>

\* ("unpack", Some(args))
RunUnpack ==
    /\ pc = "cli"
    /\ cli.pc = "start"
    /\ cli.cmd = "unpack"
    /\ cli' = check_then(cli)
    /\ UNCHANGED <<options, paths, out_file, opened, pc, result, writer_pos, hasher,
                   buffer_len, records, reads, data_size, i, entry, index_offset,
                   index_size, created_queried, wp, written, writer_buf>>

\* ("check", Some(args)); std::process::exit(1) after "Found {} error(s)"
RunCheck ==
    /\ pc = "cli"
    /\ cli.pc = "start"
    /\ cli.cmd = "check"
    /\ cli' =
        IF cli.package = None THEN exit_err(cli)
        ELSE LET recs == selected_records(cli) IN
             IF io_error(cli, recs) THEN exit_err([cli EXCEPT !.checked = Some(recs)])
             ELSE LET error_count == check_integrity_of(recs, TRUE)
                      done == [cli EXCEPT !.checked = Some(recs),
                                          !.count = Some(error_count)]
                  IN IF error_count = 0
                     THEN exit_ok([done EXCEPT !.stdout = <<"All ok">>])
                     ELSE exit_err([done EXCEPT !.stdout =
                              <<"Found", ToString(error_count), "error(s)">>])
    /\ UNCHANGED <<options, paths, out_file, opened, pc, result, writer_pos, hasher,
                   buffer_len, records, reads, data_size, i, entry, index_offset,
                   index_size, created_queried, wp, written, writer_buf>>

\* the inputs the PATH arguments yield in order, None when one of them fails
RECURSIVE collect_paths(_)
collect_paths(path_args) ==
    IF path_args = <<>> THEN Some(<<>>)
    ELSE LET rest == collect_paths(Tail(path_args)) IN
         IF Head(path_args).conv = None \/ rest = None THEN None
         ELSE Some(Head(path_args).conv[1] \o rest[1])

\* the value of a NonZeroU32 as pack compares it with the length of a source;
\* values from 2^31 on, above every length there is, are held as 2^31 - 1
u32_value(n) == IF n[2] >= 32768 THEN 2147483647 ELSE n[1] + 65536 * n[2]

\* ("pack", Some(args)): the options in the order the branch reads them, up
\* to the call of pack
pack_subcommand(c) ==
    IF ~c.encoding_ok THEN exit_err(c)
    ELSE IF parse_u32(c.version) = None THEN exit_err(c)
    ELSE IF c.size = None THEN exit_err(c)
    ELSE IF exceeds_u32(c.size[1]) THEN exit_err(c)
    ELSE IF NonZeroU32_new(as_u32(c.size[1])) = None THEN exit_err(c)
    ELSE IF parse_compression_method(c.method) = None THEN exit_err(c)
    ELSE IF parse_compression_level(c.level) = None THEN exit_err(c)
    ELSE IF Len(c.paths) = 0 THEN exit_err(c)
    ELSE IF collect_paths(c.paths) = None THEN exit_err(c)
    ELSE [c EXCEPT !.pc = "pack", !.packed = Some(
                 [version |-> parse_u32(c.version)[1],
                  compression_block_size |-> NonZeroU32_new(as_u32(c.size[1]))[1],
                  compression_method |-> parse_compression_method(c.method)[1],
                  compression_level |-> parse_compression_level(c.level)[1],
                  paths |-> Len(collect_paths(c.paths)[1])])]

\* the pack branch: it returns an Err, or calls pack with the options and the
\* inputs it has made
RunPack ==
    /\ pc = "cli"
    /\ cli.pc = "start"
    /\ cli.cmd = "pack"
    /\ cli' = pack_subcommand(cli)
    /\ IF cli'.packed # None
       THEN /\ options' = [version |-> cli'.packed[1].version,
                           mount_point |-> None,
                           compression_method |-> cli'.packed[1].compression_method,
                           compression_block_size |->
                               u32_value(cli'.packed[1].compression_block_size),
                           encoding |-> "UTF8"]
            /\ paths' = collect_paths(cli.paths)[1]
            /\ pc' = "validate"
       ELSE UNCHANGED <<options, paths, pc>>
    /\ UNCHANGED <<out_file, opened, result, writer_pos, hasher,
                   buffer_len, records, reads, data_size, i, entry, index_offset,
                   index_size, created_queried, wp, written, writer_buf>>

\* pack has returned to the pack branch: `?` passes its Err on to main(), which
\* exits with status 1; a panic ends the process with status 101
PackReturns ==
    /\ pc = "done"
    /\ cli.pc = "pack"
    /\ cli' = IF result.status = "Ok" THEN exit_ok(cli)
              ELSE IF result.status = "Err" THEN exit_err(cli)
              ELSE [cli EXCEPT !.pc = "exit", !.exit_code = 101]
    /\ UNCHANGED <<options, paths, out_file, opened, pc, result, writer_pos, hasher,
                   buffer_len, records, reads, data_size, i, entry, index_offset,
                   index_size, created_queried, wp, written, writer_buf>>

NextCli == RunList \/ RunCheck \/ RunUnpack \/ RunPack \/ Next \/ PackReturns

SpecCli == InitCli /\ [][NextCli]_vars

\* ------------------------------------------------------------------ claims

Succeeded == pc = "done" /\ result.status = "Ok"

\* the bytes of the output file
OutBytes == out_file[1]

\* the index_size bytes at index_offset
IndexBytes == SubSeq(OutBytes, index_offset + 1, index_offset + index_size)

\* the FOOTER_SIZE bytes pack wrote last
FooterBytes == SubSeq(OutBytes, writer_pos - FOOTER_SIZE + 1, writer_pos)

\* the bytes in [offset, offset + size) of the output file
PayloadBytes(record) == SubSeq(OutBytes, record.offset + 1, record.offset + record.size)

RECURSIVE SeqSum(_)
SeqSum(seq) == IF seq = <<>> THEN 0 ELSE Head(seq) + SeqSum(Tail(seq))

\* the sizes of the records before record k
SizesBefore(k) == SeqSum([j \in 1..(k - 1) |-> records[j].size])

\* C1: after pack succeeds, the index_sha1 in the footer is the SHA-1 of
\* exactly the index_size bytes at index_offset (the mount point string and
\* every serialized record, nothing else).
C1_IndexSha1IsDigestOfIndexBytes ==
    Succeeded =>
        /\ SubSeq(FooterBytes, FOOTER_SIZE - 19, FOOTER_SIZE) = Sha1Of(IndexBytes)
        /\ result.pak[1].index_sha1 = Sha1Of(IndexBytes)

\* C2: after pack succeeds, whatever was at the output path before, the
\* footer is the last 44 bytes of the file and
\* index_offset + index_size = file_length - 44.
C2_FooterTrailsTheFile ==
    Succeeded =>
        /\ SubSeq(OutBytes, Len(OutBytes) - FOOTER_SIZE + 1, Len(OutBytes))
              = encode_footer(options.version, index_offset, index_size,
                              result.pak[1].index_sha1)
        /\ index_offset + index_size = Len(OutBytes) - FOOTER_SIZE

\* C3: the sha1 of every record pack produced is the SHA-1 of the output
\* file's bytes in [offset, offset + size), whatever the other records hold;
\* it holds once pack has returned and `writer` has written out what it held,
\* hence after pack succeeds.
C3_RecordSha1IsDigestOfPayload ==
    pc = "done" =>
        \A k \in 1..Len(records) : records[k].sha1 = Sha1Of(PayloadBytes(records[k]))

\* C3 witness: pack succeeded with two stored records of non-empty payload
\* and different bytes.
C3_Witness ==
    /\ Succeeded
    /\ Len(records) = 2
    /\ records[1].size > 0
    /\ records[2].size > 0
    /\ records[1].sha1 # records[2].sha1
    /\ result.pak[1].records = records

\* C4: a rejection for an unsupported version or compression method, be it
\* the build-wide method or a per-file override, happens before the output
\* file is created or opened and before any byte is written.
C4_RejectedBeforeOutputIsTouched ==
    (/\ pc = "done"
     /\ result.status = "Err"
     /\ result.err \in {"UnsupportedVersion", "UnsupportedCompressionMethod"})
    => (~opened /\ writer_pos = 0)

\* the u32 that the first four bytes of `bytes` encode, little-endian
U32At(bytes) ==
    bytes[1].v + 256 * (bytes[2].v + 256 * (bytes[3].v + 256 * bytes[4].v))

\* the encoded form of a string: its UTF-8 bytes, or for Latin-1 one byte
\* per character
EncodedLen(path, encoding) ==
    IF encoding = "Latin1" THEN Len(path) ELSE Len(Utf8(path))

\* C5: when write_path succeeds it emits a 4-byte little-endian u32 length
\* followed by exactly that many bytes, the length being the byte length of
\* the encoded form.
C5_U32LengthPrefix ==
    (wp.called /\ wp.ret.ok) =>
        /\ Len(wp.ret.bytes) >= 4
        /\ U32At(wp.ret.bytes) = EncodedLen(wp.path, wp.encoding)
        /\ Len(wp.ret.bytes) = 4 + U32At(wp.ret.bytes)

\* C6: write_path under ASCII fails iff the string has a byte > 127 (a
\* character above 127); under Latin-1 it fails iff a character is above
\* 255 and otherwise emits one byte per character, the character's code
\* point; under UTF-8 it succeeds.
C6_EncodingBoundaries ==
    wp.called =>
        /\ wp.encoding = "ASCII" =>
              (~wp.ret.ok <=> \E k \in 1..Len(wp.path) : wp.path[k] > 127)
        /\ wp.encoding = "Latin1" =>
              /\ ~wp.ret.ok <=> \E k \in 1..Len(wp.path) : wp.path[k] > 255
              /\ wp.ret.ok =>
                    /\ Len(wp.ret.bytes) = USIZE_BYTES + Len(wp.path)
                    /\ \A k \in 1..Len(wp.path) :
                          wp.ret.bytes[USIZE_BYTES + k] = Byte(wp.path[k])
        /\ wp.encoding = "UTF8" => wp.ret.ok

\* C6 witness: a string with a character in 128..255 and none above was
\* refused under ASCII.
C6_Witness ==
    /\ wp.called
    /\ wp.encoding = "ASCII"
    /\ ~wp.ret.ok
    /\ wp.path # <<>>
    /\ \E k \in 1..Len(wp.path) : wp.path[k] > 127
    /\ \A k \in 1..Len(wp.path) : wp.path[k] <= 255

\* C7: every compression block of every record has end_offset >
\* start_offset, and the blocks of one record are increasing and do not
\* overlap.
C7_BlocksNonEmptyAndIncreasing ==
    \A k \in 1..Len(records) :
        records[k].compression_blocks # None =>
            LET blocks == records[k].compression_blocks[1] IN
            /\ \A j \in 1..Len(blocks) : blocks[j].end_offset > blocks[j].start_offset
            /\ \A j \in 1..(Len(blocks) - 1) :
                  blocks[j + 1].start_offset >= blocks[j].end_offset

\* the block size asked for entry k: the per-file value, or the build default
RequestedBlockSize(k) ==
    IF paths[k].compression_block_size = 0
    THEN options.compression_block_size
    ELSE paths[k].compression_block_size

CeilDiv(n, d) == (n + d - 1) \div d

\* C8: a zlib record built from n > 0 bytes with effective block size b > 0
\* was read in consecutive chunks of min(b, n) bytes, only the last possibly
\* shorter; it has ceil(n / min(b, n)) blocks and compression_block_size
\* min(b, n).
C8_ZlibPartition ==
    \A k \in 1..Len(records) :
        LET n == records[k].uncompressed_size
            b == RequestedBlockSize(k)
            c == Min(b, n)
        IN  (records[k].compression_method = COMPR_ZLIB /\ n > 0 /\ b > 0) =>
            /\ records[k].compression_blocks # None
            /\ Len(records[k].compression_blocks[1]) = CeilDiv(n, c)
            /\ records[k].compression_block_size = c
            /\ Len(reads[k]) = CeilDiv(n, c)
            /\ \A j \in 1..(Len(reads[k]) - 1) : reads[k][j] = c
            /\ reads[k][Len(reads[k])] \in 1..c
            /\ SeqSum(reads[k]) = n

\* C8 witness: 5 bytes with a block size of 2 gave 3 blocks.
C8_Witness ==
    \E k \in 1..Len(records) :
        /\ records[k].compression_method = COMPR_ZLIB
        /\ records[k].uncompressed_size = 5
        /\ RequestedBlockSize(k) = 2
        /\ Len(records[k].compression_blocks[1]) = 3
        /\ reads[k] = <<2, 2, 1>>

\* C9: a record has a timestamp (the creation time of its source) iff the
\* version is 1; for versions 2 and 3 the creation time is never queried;
\* for version 1 a creation time that cannot be had makes pack fail and
\* gives no record; every record has encrypted = false.
C9_TimestampIffVersion1 ==
    /\ \A k \in 1..Len(records) :
          /\ records[k].timestamp # None <=> options.version = 1
          /\ options.version = 1 =>
                /\ HostFiles[records[k].filename].created = "ok"
                /\ records[k].timestamp = Some(HostFiles[records[k].filename].secs)
          /\ records[k].encrypted = FALSE
    /\ options.version # 1 => created_queried = {}
    /\ (\E f \in created_queried : HostFiles[f].created # "ok") =>
          (pc = "done" /\ result.status = "Err")

\* C9 witness: a version 1 call made a record with a timestamp and then
\* failed on a source without a creation time.
C9_Witness ==
    /\ options.version = 1
    /\ Len(records) = 1
    /\ records[1].timestamp = Some(HostFiles[records[1].filename].secs)
    /\ \E f \in created_queried : HostFiles[f].created # "ok"
    /\ result.status = "Err"

RECURSIVE IndexEntries(_)
\* the index entries of the records from k on, in order
IndexEntries(k) ==
    IF k > Len(records) THEN <<>>
    ELSE index_entry(options.version, records[k], options.encoding).bytes
            \o IndexEntries(k + 1)

\* C10: after pack succeeds the records, returned and on disk, are in input
\* order, record k is that of path k, its offset is the sum of the sizes of
\* the records before it, the payload ranges do not overlap, and
\* index_offset is the sum of all sizes.
C10_RecordsInInputOrder ==
    Succeeded =>
        /\ Len(records) = Len(paths)
        /\ result.pak[1].records = records
        /\ \A k \in 1..Len(records) :
              /\ records[k].filename = make_pak_path(parse_pak_path(paths[k].filename))
              /\ records[k].offset = SizesBefore(k)
              /\ \A j \in 1..(k - 1) :
                    records[j].offset + records[j].size <= records[k].offset
        /\ index_offset = SizesBefore(Len(records) + 1)
        /\ result.pak[1].index_offset = index_offset
        /\ IndexBytes =
              write_path(IF options.mount_point = None THEN <<>> ELSE options.mount_point[1],
                         options.encoding).bytes \o IndexEntries(1)

\* C10 witness: pack succeeded on two inputs with non-empty payloads.
C10_Witness ==
    /\ Succeeded
    /\ Len(paths) = 2
    /\ records[1].size > 0
    /\ records[2].size > 0
    /\ records[2].offset = records[1].size
    /\ records[1].filename # records[2].filename

\* C11: for the check subcommand and for unpack run with --check-integrity, a
\* non-zero mismatch count returned by the integrity check makes the process
\* exit with a non-zero status; check exits zero and prints "All ok" iff the
\* count is 0.
C11_MismatchCountGivesNonZeroExit ==
    (cli.pc = "exit" /\ cli.count # None) =>
        /\ (cli.cmd \in {"check", "unpack"} /\ cli.count[1] # 0) => cli.exit_code # 0
        /\ cli.cmd = "check" =>
              ((cli.exit_code = 0 /\ cli.stdout = <<"All ok">>) <=> cli.count[1] = 0)

\* the content of the host file record k was made from
SourceBytes(k) == Bytes(HostFiles[make_pak_path(parse_pak_path(paths[k].filename))].content)

\* C12: every record pack produces with compression method None, whatever the
\* source length is against BUFFER_SIZE and whether or not an earlier zlib
\* entry enlarged the scratch buffer, has size = uncompressed_size, no
\* compression blocks and compression_block_size 0, and, once pack has
\* returned, the output bytes in [offset, offset + size) are the source file's
\* bytes in order.
C12_StoredRecordsAreVerbatim ==
    \A k \in 1..Len(records) :
        records[k].compression_method = COMPR_NONE =>
            /\ records[k].size = records[k].uncompressed_size
            /\ records[k].size = Len(SourceBytes(k))
            /\ records[k].compression_blocks = None
            /\ records[k].compression_block_size = 0
            /\ written[k] = records[k].size
            /\ pc = "done" => PayloadBytes(records[k]) = SourceBytes(k)

\* C12 witness: after a zlib entry whose block size enlarged the scratch
\* buffer, a stored record longer than BUFFER_SIZE and not a multiple of it.
C12_Witness ==
    /\ Succeeded
    /\ Len(records) = 2
    /\ records[1].compression_method = COMPR_ZLIB
    /\ records[1].compression_block_size > BUFFER_SIZE
    /\ records[2].compression_method = COMPR_NONE
    /\ records[2].size > BUFFER_SIZE
    /\ records[2].size % BUFFER_SIZE # 0
    /\ PayloadBytes(records[2]) = SourceBytes(2)

\* the sum of end_offset - start_offset over the blocks
RECURSIVE BlockLengths(_)
BlockLengths(blocks) ==
    IF blocks = <<>> THEN 0
    ELSE (Head(blocks).end_offset - Head(blocks).start_offset) + BlockLengths(Tail(blocks))

\* C13: the blocks of every zlib record pack produces are back to back (the
\* first starts at 0, each later one where the previous one ends), the
\* record's size is the sum of the block lengths, and that size is the number
\* of payload bytes pack wrote to the output for the record.
C13_ZlibBlocksBackToBack ==
    \A k \in 1..Len(records) :
        records[k].compression_method = COMPR_ZLIB =>
            /\ records[k].compression_blocks # None
            /\ LET blocks == records[k].compression_blocks[1] IN
               /\ blocks # <<>> => blocks[1].start_offset = 0
               /\ \A j \in 2..Len(blocks) : blocks[j].start_offset = blocks[j - 1].end_offset
               /\ records[k].size = BlockLengths(blocks)
            /\ records[k].size = written[k]

\* C13 witness: a zlib record of three blocks, made after a stored record
\* whose payload was written.
C13_Witness ==
    /\ Len(records) = 2
    /\ records[1].compression_method = COMPR_NONE
    /\ written[1] > 0
    /\ records[2].compression_method = COMPR_ZLIB
    /\ Len(records[2].compression_blocks[1]) = 3
    /\ written[2] = 0

\* the run performs an integrity check: check always, list and unpack with
\* --check-integrity, once the package is open
ChecksIntegrity ==
    /\ cli.pc = "exit"
    /\ cli.package # None
    /\ cli.cmd = "check" \/ (cli.cmd \in {"list", "unpack"} /\ cli.check_integrity)

\* the PATH arguments accept the record's filename
Accepted(record) ==
    \E k \in 1..Len(cli.paths) : Filter_contains({cli.paths[k].text}, record.filename)

\* C14: in check, list --check-integrity and unpack --check-integrity the
\* records passed to the integrity check are exactly those whose filename the
\* path filter accepts when at least one PATH is given, and all records of
\* the package when no PATH is given.
C14_CheckedRecordsAreTheSelection ==
    ChecksIntegrity =>
        /\ cli.checked # None
        /\ cli.checked[1] = IF Len(cli.paths) >= 1
                            THEN SelectSeq(cli.package[1], Accepted)
                            ELSE cli.package[1]

\* C14 witness: list --check-integrity with a PATH that accepts one of the
\* two records of the package.
C14_Witness ==
    /\ ChecksIntegrity
    /\ cli.cmd = "list"
    /\ Len(cli.paths) = 1
    /\ Len(cli.package[1]) = 2
    /\ Len(cli.checked[1]) = 1
    /\ cli.checked[1][1].filename = <<100, 47, 98>>

\* C15: the compression_method of record k is the override of path k when
\* that is not COMPR_DEFAULT and the build-wide method otherwise; a zlib
\* entry is read in blocks of the per-file compression_block_size when that
\* is non-zero and of the build-wide one otherwise (the last block possibly
\* shorter); both depend on path k and the options only, never on another
\* entry.
C15_PerFileOverrides ==
    \A k \in 1..Len(records) :
        /\ records[k].compression_method =
              IF paths[k].compression_method # COMPR_DEFAULT
              THEN paths[k].compression_method
              ELSE options.compression_method
        /\ records[k].compression_method = COMPR_ZLIB =>
              LET b == IF paths[k].compression_block_size # 0
                       THEN paths[k].compression_block_size
                       ELSE options.compression_block_size
              IN  /\ \A j \in 1..(Len(reads[k]) - 1) : reads[k][j] = b
                  /\ reads[k] # <<>>
                  /\ reads[k][Len(reads[k])] \in 1..b
                  /\ records[k].compression_block_size = Min(b, records[k].uncompressed_size)

\* C15 witness: under build-wide zlib with block size 3, a first entry with
\* its own block size 2, then an entry with no override, then the records.
C15_Witness ==
    /\ Len(records) = 2
    /\ options.compression_method = COMPR_ZLIB
    /\ paths[1].compression_method = COMPR_ZLIB
    /\ paths[1].compression_block_size = 2
    /\ reads[1] = <<2, 2, 1>>
    /\ paths[2].compression_method = COMPR_DEFAULT
    /\ paths[2].compression_block_size = 0
    /\ records[2].compression_method = COMPR_ZLIB
    /\ reads[2] = <<3, 1>>

\* the file reads as a package: its last FOOTER_SIZE bytes are a footer with
\* the magic whose index_offset and index_size add up to the length before it
IsValidPackage(file) ==
    /\ Len(file) >= FOOTER_SIZE
    /\ LET rest == Len(file) - FOOTER_SIZE
           footer == SubSeq(file, rest + 1, Len(file))
       IN  /\ SubSeq(footer, 1, 4) = LE(PAK_MAGIC, 4)
           /\ \E offset \in 0..rest :
                 /\ SubSeq(footer, 9, 16) = LE(offset, 8)
                 /\ SubSeq(footer, 17, 24) = LE(rest - offset, 8)

\* C16: when pack fails after it has opened the output file, the file it
\* leaves is not a valid package (its last 44 bytes are not a footer with the
\* magic and index_offset + index_size = file length - 44), also when a valid
\* package was at the output path before the call.
C16_FailedPackLeavesNoValidPackage ==
    (pc = "done" /\ opened /\ result.status # "Ok") => ~IsValidPackage(OutBytes)

\* C17: pack returns for every finite list of finite inputs, zero-length
\* files included; in particular every iteration of the block loop of the
\* zlib branch strictly decreases the remaining byte count.
C17_ZlibLoopDecreasesRemaining ==
    [][(pc = "zlib" /\ pc' = "zlib") => entry'.remaining < entry.remaining]_vars

\* the --compression-level arguments that are "best", "fast", "default" in any
\* case or a decimal integer in 1..=9, with the level each one means
Levels ==
    {<<(<<98, 101, 115, 116>>), 9>>, <<(<<70, 65, 83, 84>>), 1>>,
     <<(<<68, 101, 102, 97, 117, 108, 116>>), 6>>, <<(<<49>>), 1>>, <<(<<57>>), 9>>,
     <<(<<43, 53>>), 5>>, <<(<<48, 53>>), 5>>}

\* the --compression-method arguments that are "none" or "zlib" in any case,
\* with the method each one means
Methods ==
    {<<(<<110, 111, 110, 101>>), COMPR_NONE>>, <<(<<78, 79, 78, 69>>), COMPR_NONE>>,
     <<(<<90, 108, 105, 98>>), COMPR_ZLIB>>, <<(<<122, 108, 105, 98>>), COMPR_ZLIB>>}

\* the options of the pack run are all valid
Validated ==
    /\ cli.size # None
    /\ cli.size[1][3] = 0 /\ cli.size[1][4] = 0
    /\ cli.size[1][1] # 0 \/ cli.size[1][2] # 0
    /\ \E m \in Methods : m[1] = cli.method
    /\ \E l \in Levels : l[1] = cli.level
    /\ Len(cli.paths) >= 1

\* C18: the pack subcommand calls pack only if the block size is in
\* 1..=u32::MAX, the method is "none" or "zlib" in any case, the level is
\* "best" (9), "fast" (1), "default" (6) or a decimal integer in 1..=9 and at
\* least one PATH was given; on a validation failure the command returns an
\* error and the output file is left untouched.
C18_PackCalledOnlyIfValidated ==
    cli.cmd = "pack" =>
        /\ (cli.packed # None \/ pc # "cli" \/ opened \/ out_file # None) =>
              /\ Validated
              /\ cli.packed # None
              /\ cli.packed[1].compression_block_size = <<cli.size[1][1], cli.size[1][2]>>
              /\ <<cli.method, cli.packed[1].compression_method>> \in Methods
              /\ <<cli.level, cli.packed[1].compression_level>> \in Levels
        /\ (cli.pc = "exit" /\ ~Validated) =>
              /\ cli.packed = None
              /\ cli.exit_code # 0
              /\ out_file = None
              /\ ~opened

\* C18 witness: pack was called with --compression-block-size u32::MAX,
\* --compression-method Zlib, --compression-level +5 and two PATHs.
C18_Witness ==
    /\ cli.pc = "exit"
    /\ cli.cmd = "pack"
    /\ cli.packed # None
    /\ cli.size = Some(<<65535, 65535, 0, 0>>)
    /\ cli.method = <<90, 108, 105, 98>>
    /\ cli.packed[1].compression_method = COMPR_ZLIB
    /\ cli.level = <<43, 53>>
    /\ cli.packed[1].compression_level = 5
    /\ Len(cli.paths) = 2
    /\ cli.exit_code = 0
    /\ Len(out_file[1]) > FOOTER_SIZE

====
